---- MODULE Spec2Model ----
(***************************************************************************)
(* A model of GLnexus' Service (src/src/service.cc):                       *)
(*   - Service::genotype_sites, the fork-join pipeline that genotypes the  *)
(*     sites on a thread pool and writes the records in site order;        *)
(*   - Service::discover_alleles, the per-dataset allele discovery with    *)
(*     its merge and its ex post facto reference check.                    *)
(* SpecGeno is the state machine of genotype_sites, SpecDisc the one of    *)
(* discover_alleles, SpecMerge merges per-dataset allele sets in every     *)
(* order.                                                                  *)
(***************************************************************************)
EXTENDS Integers, Sequences, FiniteSets, TLC

(***************************************************************************)
(* Bounds of the model.                                                    *)
(***************************************************************************)
MaxSites == 5
PoolSize == 2
MaxDatasets == 2
MaxRecords == 3
MaxCount == 1

VARIABLES
    \* ---- genotype_sites ----
    pc,         \* position of the calling thread in genotype_sites
    N,          \* sites.size()
    sub_i,      \* loop variable of the submission loop (line 191)
    i,          \* loop variable of the drain loop (line 212)
    queue,      \* the thread pool's task queue (FIFO of site indices)
    tstate,     \* per task: its position in the lambda of lines 192-203
    statuses,   \* per task: the shared state of its future<Status>
    results,    \* the results vector: per slot, Null or the record (its site)
    abort,      \* atomic<bool> abort
    s,          \* Status s of genotype_sites
    s_i,        \* Status s_i of the drain loop body
    bcf_i,      \* shared_ptr bcf_i of the drain loop body
    outfile,    \* the output file handle: "null", "open" or "closed"
    sink,       \* the records the output file holds, in the order written
    ret,        \* the Status genotype_sites returned
    \* ---- history of genotype_sites (not program state) ----
    h,
    \* ---- discover_alleles ----
    dpc,        \* position in discover_alleles
    ND,         \* datasets->size()
    ds,         \* the dataset of the loop of line 49 (1..ND)
    nrec,       \* records of this dataset that the loop of line 57 has left
    dsals,      \* discovered_alleles dsals (line 56)
    ans,        \* discovered_alleles& ans, the caller's result set
    dret,       \* the Status discover_alleles returned
    \* ---- history of discover_alleles (not program state) ----
    hd,
    \* ---- merging per-dataset sets in any order ----
    msets,      \* the per-dataset discovered_alleles to merge
    mwork,      \* the same, as far as they were merged with each other
    mpending,   \* the ones not merged yet
    macc,       \* the accumulator they are merged into
    mfirst      \* history: the set that was merged first

gvars == <<pc, N, sub_i, i, queue, tstate, statuses, results, abort, s, s_i,
           bcf_i, outfile, sink, ret, h>>

dvars == <<dpc, ND, ds, nrec, dsals, ans, dret, hd>>

mvars == <<msets, mwork, mpending, macc, mfirst>>

vars == <<gvars, dvars, mvars>>

Sites == 0 .. (MaxSites - 1)

(***************************************************************************)
(* Status values. site is the site a genotype_site failure belongs to      *)
(* (-1 when the status belongs to no site).                                *)
(***************************************************************************)
Status(code, msg, site) == [code |-> code, msg |-> msg, site |-> site]
StatusOK == Status("OK", "", -1)
Pending == Status("pending", "", -1)
NoStatus == Status("none", "", -1)
\* Status::Invalid() of line 194: what a task returns when it saw abort
Cancelled == Status("Invalid", "", -1)
\* the error genotype_site returns for site t (line 197)
SiteFailure(t) == Status("Failure", "genotype_site", t)
WriteError == Status("IOError", "bcf_write", -1)
CloseError == Status("IOError", "bcf_close", -1)

\* an empty shared_ptr<bcf1_t> (line 185); a record is named by its site >= 0
Null == 0 - 1

ok(st) == st.code = "OK"
bad(st) == st.code # "OK"

(***************************************************************************)
(* genotype_sites: the conditions of the code, one definition each.        *)
(***************************************************************************)
\* a lambda capturing i by reference: the slot is whatever the loop variable
\* holds when the task stores
SlotByReference(t) == IF sub_i < N THEN sub_i ELSE N - 1

\* a drain loop that stops one site early
DrainStopsEarly(k) == k + 1 < N

\* a drain that does not wait for the future
FutureNotAwaited(k) == TRUE

\* a copy instead of a move: the slot keeps the record
CopiedFrom(slot) == slot

\* a write that ignores the recorded error
WriteIgnoringError(st, sti) == ok(sti)

\* recording the last error instead of the first
RecordLastError(st, sti) == bad(sti)

\* a close whose result is dropped
CloseStatusIgnored(closed) == StatusOK

\* line 191: i < sites.size(), the submission loop's condition
SubmitContinues(k) == k < N

\* a task that does not look at the flag
AbortIgnored(flag) == FALSE

\* line 193: if (abort), read at the task's entry
AbortObserved(flag) == flag

\* line 201: results[i] = move(bcf); i is captured by value (line 192)
SlotOf(t) == t

\* line 212: i < sites.size(), the drain loop's condition
DrainContinues(k) == k < N

\* line 214: statuses[i].get() returns only once task i made its future ready
FutureReady(k) == statuses[k].code # "pending"

\* line 218: bcf_i = move(results[i]) leaves the slot empty
MovedFrom(slot) == Null

\* line 221: if (s.ok() && s_i.ok())
ShouldWrite(st, sti) == ok(st) /\ ok(sti)

\* an else without a condition: every iteration that does not write records
\* s_i and sets the flag
RecordUnconditionally(st, sti) == TRUE

\* line 227: else if (s.ok() && s_i.bad())
ShouldRecord(st, sti) == ok(st) /\ bad(sti)

\* lines 240-241: bcf_close(...) == 0 ? Status::OK() : Status::IOError(...)
CloseStatus(closed) == IF closed THEN StatusOK ELSE CloseError

\* the tasks a pool thread is executing
Running == {t \in Sites : tstate[t] \in {"compute", "store", "return_ok",
                                          "return_bad", "return_cancel"}}

EmptyMap == [k \in {} |-> 0]

\* discover_alleles is not running
DiscIdle ==
    /\ dpc = "idle"
    /\ ND = 0
    /\ ds = 0
    /\ nrec = 0
    /\ dsals = EmptyMap
    /\ ans = EmptyMap
    /\ dret = NoStatus
    /\ hd = [reported |-> {}, degenerate |-> FALSE, retFrom |-> "none", total |-> 0]

\* no merge is running
MergeIdle ==
    /\ msets = <<>>
    /\ mwork = <<>>
    /\ mpending = {}
    /\ macc = EmptyMap
    /\ mfirst = ""

HInit == [moved      |-> [t \in Sites |-> 0],
          writeCalls |-> [t \in Sites |-> 0],
          discards   |-> [t \in Sites |-> 0],
          produced   |-> [t \in Sites |-> FALSE],
          writers    |-> [t \in Sites |-> {}],
          submitted  |-> [t \in Sites |-> 0],
          skew       |-> FALSE,
          firstFail  |-> -1,
          writeFailAt |-> -1,
          early      |-> FALSE,
          closes     |-> 0,
          closedBy   |-> "none",
          closeOK    |-> TRUE,
          retFrom    |-> "none",
          entry      |-> [t \in Sites |-> "none"],
          invoked    |-> [t \in Sites |-> FALSE],
          lateStore  |-> [t \in Sites |-> FALSE]]

\* genotype_sites is not running
GenoIdle ==
    /\ pc = "idle"
    /\ N = 0
    /\ sub_i = 0
    /\ i = 0
    /\ queue = <<>>
    /\ tstate = [t \in Sites |-> "none"]
    /\ statuses = [t \in Sites |-> NoStatus]
    /\ results = [t \in Sites |-> Null]
    /\ abort = FALSE
    /\ s = NoStatus
    /\ s_i = NoStatus
    /\ bcf_i = Null
    /\ outfile = "null"
    /\ sink = <<>>
    /\ ret = NoStatus
    /\ h = HInit

GenoInit ==
    /\ pc = "start"
    /\ N \in 0 .. MaxSites
    /\ sub_i = 0
    /\ i = 0
    /\ queue = <<>>
    /\ tstate = [t \in Sites |-> "none"]
    /\ statuses = [t \in Sites |-> NoStatus]
    /\ results = [t \in Sites |-> Null]
    /\ abort = FALSE
    /\ s = NoStatus
    /\ s_i = NoStatus
    /\ bcf_i = Null
    /\ outfile = "null"
    /\ sink = <<>>
    /\ ret = NoStatus
    /\ h = HInit
    /\ DiscIdle
    /\ MergeIdle

(***************************************************************************)
(* Lines 147-181: resolve the sample set, build the header, open the file. *)
(***************************************************************************)
\* line 149: S(sampleset_datasets(...))
Resolve ==
    /\ pc = "start"
    /\ \E found \in BOOLEAN :
         IF found
         THEN /\ pc' = "header"
              /\ UNCHANGED <<ret, h>>
         ELSE /\ pc' = "returned"
              /\ ret' = Status("NotFound", "sampleset", -1)
              /\ h' = [h EXCEPT !.retFrom = "setup"]
    /\ UNCHANGED <<N, sub_i, i, queue, tstate, statuses, results, abort, s,
                   s_i, bcf_i, outfile, sink>>
    /\ UNCHANGED <<dvars, mvars>>

\* lines 153-172: bcf_hdr_append, bcf_hdr_add_sample, bcf_hdr_sync
BuildHeader ==
    /\ pc = "header"
    /\ \E built \in BOOLEAN :
         IF built
         THEN /\ pc' = "open"
              /\ UNCHANGED <<ret, h>>
         ELSE /\ pc' = "returned"
              /\ ret' = Status("Failure", "bcf_hdr", -1)
              /\ h' = [h EXCEPT !.retFrom = "setup"]
    /\ UNCHANGED <<N, sub_i, i, queue, tstate, statuses, results, abort, s,
                   s_i, bcf_i, outfile, sink>>
    /\ UNCHANGED <<dvars, mvars>>

\* lines 175-178: bcf_open; a null handle returns IOError
OpenSink ==
    /\ pc = "open"
    /\ \E opened \in BOOLEAN :
         IF opened
         THEN /\ pc' = "hdr_write"
              /\ outfile' = "open"
              /\ UNCHANGED <<ret, h>>
         ELSE /\ pc' = "returned"
              /\ ret' = Status("IOError", "bcf_open", -1)
              /\ h' = [h EXCEPT !.retFrom = "setup"]
              /\ UNCHANGED outfile
    /\ UNCHANGED <<N, sub_i, i, queue, tstate, statuses, results, abort, s,
                   s_i, bcf_i, sink>>
    /\ UNCHANGED <<dvars, mvars>>

\* lines 179-181: bcf_hdr_write; on failure the return destroys outfile,
\* whose deleter (line 175) calls bcf_close
WriteHeader ==
    /\ pc = "hdr_write"
    /\ \E written \in BOOLEAN :
         IF written
         THEN /\ pc' = "submit"
              /\ UNCHANGED <<ret, h, outfile>>
         ELSE /\ pc' = "returned"
              /\ ret' = Status("IOError", "bcf_hdr_write", -1)
              /\ outfile' = "closed"
              /\ h' = [h EXCEPT !.retFrom = "setup",
                                !.closes = @ + 1,
                                !.closedBy = "deleter"]
    /\ UNCHANGED <<N, sub_i, i, queue, tstate, statuses, results, abort, s,
                   s_i, bcf_i, sink>>
    /\ UNCHANGED <<dvars, mvars>>

(***************************************************************************)
(* Lines 184-206: one task per site is pushed on the thread pool.          *)
(***************************************************************************)
Submit ==
    /\ pc = "submit"
    /\ SubmitContinues(sub_i)
    /\ queue' = Append(queue, sub_i)
    /\ tstate' = [tstate EXCEPT ![sub_i] = "queued"]
    /\ statuses' = [statuses EXCEPT ![sub_i] = Pending]
    /\ h' = [h EXCEPT !.submitted[sub_i] = @ + 1]
    /\ sub_i' = sub_i + 1
    /\ UNCHANGED <<pc, N, i, results, abort, s, s_i, bcf_i, outfile, sink, ret>>
    /\ UNCHANGED <<dvars, mvars>>

\* the loop ends; line 211: s = Status::OK()
SubmitDone ==
    /\ pc = "submit"
    /\ ~SubmitContinues(sub_i)
    /\ pc' = "drain"
    /\ s' = StatusOK
    /\ UNCHANGED <<N, sub_i, i, queue, tstate, statuses, results, abort, s_i,
                   bcf_i, outfile, sink, ret, h>>
    /\ UNCHANGED <<dvars, mvars>>

(***************************************************************************)
(* Lines 192-203: the task of site t, on a thread of the pool.             *)
(***************************************************************************)
\* a free pool thread takes the oldest queued task and runs line 193
TaskEntry(t) ==
    /\ queue # <<>>
    /\ t = Head(queue)
    /\ Cardinality(Running) < PoolSize
    /\ queue' = Tail(queue)
    /\ tstate' = [tstate EXCEPT ![t] =
                     IF AbortObserved(abort) THEN "return_cancel" ELSE "compute"]
    /\ h' = [h EXCEPT !.entry[t] = IF abort THEN "set" ELSE "clear"]
    /\ UNCHANGED <<pc, N, sub_i, i, statuses, results, abort, s, s_i, bcf_i,
                   outfile, sink, ret>>
    /\ UNCHANGED <<dvars, mvars>>

\* lines 196-200: genotype_site succeeds or fails
TaskCompute(t) ==
    /\ tstate[t] = "compute"
    /\ \E good \in BOOLEAN :
         tstate' = [tstate EXCEPT ![t] = IF good THEN "store" ELSE "return_bad"]
    /\ h' = [h EXCEPT !.invoked[t] = TRUE]
    /\ UNCHANGED <<pc, N, sub_i, i, queue, statuses, results, abort, s, s_i,
                   bcf_i, outfile, sink, ret>>
    /\ UNCHANGED <<dvars, mvars>>

\* line 201: results[i] = move(bcf)
TaskStore(t) ==
    /\ tstate[t] = "store"
    /\ results' = [results EXCEPT ![SlotOf(t)] = t]
    /\ tstate' = [tstate EXCEPT ![t] = "return_ok"]
    /\ h' = [h EXCEPT !.produced[t] = TRUE,
                      !.writers[SlotOf(t)] = @ \cup {t},
                      !.lateStore[t] = abort]
    /\ UNCHANGED <<pc, N, sub_i, i, queue, statuses, abort, s, s_i, bcf_i,
                   outfile, sink, ret>>
    /\ UNCHANGED <<dvars, mvars>>

\* a pool that drops the result of a task that returned at line 194: the
\* future of a cancelled task is never made ready
TaskReturnLosesCancelled(t) ==
    /\ tstate[t] \in {"return_ok", "return_bad"}
    /\ statuses' = [statuses EXCEPT ![t] =
                       IF tstate[t] = "return_ok" THEN StatusOK ELSE SiteFailure(t)]
    /\ tstate' = [tstate EXCEPT ![t] = "done"]
    /\ h' = [h EXCEPT
               !.skew = @ \/ \E u \in Sites : u < t /\ u < N /\ tstate[u] # "done",
               !.firstFail = IF @ = -1 /\ tstate[t] = "return_bad" THEN t ELSE @]
    /\ UNCHANGED <<pc, N, sub_i, i, queue, results, abort, s, s_i, bcf_i,
                   outfile, sink, ret>>
    /\ UNCHANGED <<dvars, mvars>>

\* lines 194, 199, 202: the return value makes the future ready
TaskReturn(t) ==
    /\ tstate[t] \in {"return_ok", "return_bad", "return_cancel"}
    /\ statuses' = [statuses EXCEPT ![t] =
                       CASE tstate[t] = "return_ok" -> StatusOK
                         [] tstate[t] = "return_bad" -> SiteFailure(t)
                         [] tstate[t] = "return_cancel" -> Cancelled]
    /\ tstate' = [tstate EXCEPT ![t] = "done"]
    /\ h' = [h EXCEPT
               !.skew = @ \/ \E u \in Sites : u < t /\ u < N /\ tstate[u] # "done",
               !.firstFail = IF @ = -1 /\ tstate[t] = "return_bad" THEN t ELSE @]
    /\ UNCHANGED <<pc, N, sub_i, i, queue, results, abort, s, s_i, bcf_i,
                   outfile, sink, ret>>
    /\ UNCHANGED <<dvars, mvars>>

(***************************************************************************)
(* Lines 212-232: the drain, in site order.                                *)
(***************************************************************************)
\* line 214: Status s_i(statuses[i].get())
DrainGet ==
    /\ pc = "drain"
    /\ DrainContinues(i)
    /\ FutureReady(i)
    /\ s_i' = statuses[i]
    /\ pc' = "move"
    /\ UNCHANGED <<N, sub_i, i, queue, tstate, statuses, results, abort, s,
                   bcf_i, outfile, sink, ret, h>>
    /\ UNCHANGED <<dvars, mvars>>

\* lines 217-219: bcf_i = move(results[i])
DrainMove ==
    /\ pc = "move"
    /\ bcf_i' = results[i]
    /\ results' = [results EXCEPT ![i] = MovedFrom(@)]
    /\ h' = [h EXCEPT !.moved[i] = IF results[i] # Null THEN @ + 1 ELSE @,
                      !.early = @ \/ tstate[i] # "done"]
    /\ pc' = "decide"
    /\ UNCHANGED <<N, sub_i, i, queue, tstate, statuses, abort, s, s_i,
                   outfile, sink, ret>>
    /\ UNCHANGED <<dvars, mvars>>

\* lines 221-232: write the record, or record the first error and set abort,
\* or neither; bcf_i goes out of scope at the end of the iteration
DrainDecide ==
    /\ pc = "decide"
    /\ IF ShouldWrite(s, s_i)
       THEN \E written \in BOOLEAN :
              /\ sink' = IF written THEN Append(sink, bcf_i) ELSE sink
              /\ s' = IF written THEN s ELSE WriteError
              /\ h' = [h EXCEPT !.writeCalls[i] = @ + 1,
                                !.writeFailAt = IF written THEN @ ELSE i]
              /\ UNCHANGED abort
       ELSE /\ IF ShouldRecord(s, s_i)
               THEN s' = s_i /\ abort' = TRUE
               ELSE UNCHANGED <<s, abort>>
            /\ h' = [h EXCEPT !.discards[i] = IF bcf_i # Null THEN @ + 1 ELSE @]
            /\ UNCHANGED sink
    /\ bcf_i' = Null
    /\ i' = i + 1
    /\ pc' = "drain"
    /\ UNCHANGED <<N, sub_i, queue, tstate, statuses, results, s_i, outfile, ret>>
    /\ UNCHANGED <<dvars, mvars>>

\* the drain loop ends
DrainDone ==
    /\ pc = "drain"
    /\ ~DrainContinues(i)
    /\ pc' = "finish"
    /\ UNCHANGED <<N, sub_i, i, queue, tstate, statuses, results, abort, s,
                   s_i, bcf_i, outfile, sink, ret, h>>
    /\ UNCHANGED <<dvars, mvars>>

(***************************************************************************)
(* Lines 233-241: the return.                                              *)
(***************************************************************************)
\* lines 233-235: return s; the destructor of outfile runs its deleter,
\* bcf_close (line 175), whose result nobody reads
ReturnError ==
    /\ pc = "finish"
    /\ bad(s)
    /\ \E closed \in BOOLEAN :
         h' = [h EXCEPT !.retFrom = "drain",
                        !.closes = @ + 1,
                        !.closedBy = "deleter",
                        !.closeOK = closed]
    /\ ret' = s
    /\ outfile' = "closed"
    /\ pc' = "returned"
    /\ UNCHANGED <<N, sub_i, i, queue, tstate, statuses, results, abort, s,
                   s_i, bcf_i, sink>>
    /\ UNCHANGED <<dvars, mvars>>

\* lines 240-241: bcf_close(outfile.release())
CloseSink ==
    /\ pc = "finish"
    /\ ~bad(s)
    /\ \E closed \in BOOLEAN :
         /\ ret' = CloseStatus(closed)
         /\ h' = [h EXCEPT !.retFrom = "close",
                           !.closes = @ + 1,
                           !.closedBy = "explicit",
                           !.closeOK = closed]
    /\ outfile' = "closed"
    /\ pc' = "returned"
    /\ UNCHANGED <<N, sub_i, i, queue, tstate, statuses, results, abort, s,
                   s_i, bcf_i, sink>>
    /\ UNCHANGED <<dvars, mvars>>

GenoNext ==
    \/ Resolve
    \/ BuildHeader
    \/ OpenSink
    \/ WriteHeader
    \/ Submit
    \/ SubmitDone
    \/ \E t \in Sites : TaskEntry(t)
    \/ \E t \in Sites : TaskCompute(t)
    \/ \E t \in Sites : TaskStore(t)
    \/ \E t \in Sites : TaskReturn(t)
    \/ DrainGet
    \/ DrainMove
    \/ DrainDecide
    \/ DrainDone
    \/ ReturnError
    \/ CloseSink

SpecGeno == GenoInit /\ [][GenoNext]_vars

\* the calling thread and the threads of the pool are scheduled fairly: as
\* long as one of them can take a step, a step is taken
SpecGenoFair == GenoInit /\ [][GenoNext]_vars /\ WF_vars(GenoNext)

(***************************************************************************)
(* Claims about genotype_sites.                                            *)
(***************************************************************************)
\* genotype_sites has gone through the drain (it is at or past line 233)
Drained == pc = "finish" \/ (pc = "returned" /\ h.retFrom # "setup")

\* the sites whose task failed in genotype_site
Failed == {t \in Sites : t < N /\ statuses[t].code = "Failure"}

SetMin(S) == CHOOSE x \in S : \A y \in S : x <= y

\* C1: the records are written in strictly ascending site order, whatever
\* the order in which the tasks complete, and when genotype_sites returns
\* OK the sink holds exactly the records of sites 0..N-1, in that order.
C1_OrderedSink ==
    /\ \A a, b \in DOMAIN sink : a < b => sink[a] < sink[b]
    /\ (pc = "returned" /\ ok(ret)) => sink = [k \in 1 .. N |-> k - 1]

\* OK is returned for at least three sites although a later site's task
\* completed before an earlier one
C1_Witness ==
    pc = "returned" /\ ok(ret) /\ N >= 3 /\ h.skew /\ Len(sink) = N

\* C2 (as stated): an error returned after the drain is always the failure
\* of the lowest site whose task failed.
C2_LowestTaskFailure ==
    (pc = "returned" /\ h.retFrom = "drain")
        => (Failed # {} /\ ret = SiteFailure(SetMin(Failed)))

\* C2 (amended): an error returned after the drain is the first error in
\* site order: the bcf_write error of site w if the write of site w failed
\* (then no task below w failed), and otherwise the failure of the lowest
\* site whose task failed; never a cancellation, never a later failure.
C2_FirstErrorInSiteOrder ==
    (pc = "returned" /\ h.retFrom = "drain")
        => IF h.writeFailAt # -1
           THEN /\ ret = WriteError
                /\ \A t \in Sites : t <= h.writeFailAt => ok(statuses[t])
           ELSE /\ Failed # {}
                /\ ret = SiteFailure(SetMin(Failed))

\* sites 1 and 3 fail, site 3's task fails first, and site 1's error returns
C2_Witness ==
    /\ pc = "returned"
    /\ ret = SiteFailure(1)
    /\ Failed = {1, 3}
    /\ h.firstFail = 3

\* C3: a record a task produced is moved out of its slot exactly once and
\* then handed to bcf_write or dropped, one of the two, also after an error
\* was recorded; after the drain no slot holds a record.
C3_SlotsMovedOnce ==
    /\ \A t \in Sites :
         /\ h.moved[t] <= 1
         /\ h.writeCalls[t] + h.discards[t] <= h.moved[t]
    /\ Drained =>
         \A t \in Sites :
           /\ results[t] = Null
           /\ h.produced[t] =>
                (h.moved[t] = 1 /\ h.writeCalls[t] + h.discards[t] = 1)

\* an error was recorded, an earlier record was written and a later record
\* was produced, moved out and dropped
C3_Witness ==
    /\ pc = "returned"
    /\ bad(ret)
    /\ \E t, u \in Sites :
         /\ t < u
         /\ h.writeCalls[t] = 1
         /\ h.produced[u] /\ h.moved[u] = 1 /\ h.discards[u] = 1

\* C4: slot t is written by task t alone, and the drain reads or moves slot
\* i only once task i has completed.
C4_SlotAccessAfterCompletion ==
    /\ \A t \in Sites : h.writers[t] \subseteq {t}
    /\ ~h.early
    /\ pc \in {"move", "decide"} => tstate[i] = "done"

\* the drain moves the record of slot i while a later task is still running
C4_Witness ==
    /\ pc = "move"
    /\ results[i] # Null
    /\ \E u \in Sites : u > i /\ tstate[u] \in {"compute", "store"}

\* C5: a task ends with the cancellation outcome only after the drain has
\* recorded a genotype_site failure, and neither s nor the returned status
\* is ever a cancellation outcome.
C5_CancelOnlyAfterError ==
    /\ \A t \in Sites :
         (tstate[t] = "return_cancel" \/ statuses[t] = Cancelled)
            => (s.code = "Failure" /\ s.site < t)
    /\ s # Cancelled
    /\ ret # Cancelled

\* a task was cancelled and genotype_sites returns the failure of a site
C5_Witness ==
    /\ pc = "returned"
    /\ ret.code = "Failure"
    /\ \E t \in Sites : statuses[t] = Cancelled

\* C6: once the output file is open and its header written, one task is
\* submitted for every site 0..N-1, whatever the outcome of the other sites,
\* and genotype_sites returns only after all N tasks completed.
C6_SubmitAllJoinAll ==
    /\ \A t \in Sites : h.submitted[t] <= 1 /\ (t >= N => h.submitted[t] = 0)
    /\ (pc \in {"drain", "move", "decide"} \/ Drained)
          => \A t \in Sites : t < N => h.submitted[t] = 1
    /\ (pc = "returned" /\ h.retFrom # "setup")
          => \A t \in Sites : t < N => tstate[t] = "done"

\* site 0 failed, and the later sites were still submitted and completed
C6_Witness ==
    /\ pc = "returned"
    /\ N >= 3
    /\ ret = SiteFailure(0)
    /\ \A t \in Sites : t < N => tstate[t] = "done"

\* C7 (as stated): when the drain recorded an error that error is returned
\* and no close is performed on the sink; otherwise the sink is closed once
\* and the result is OK or the I/O error of the close.
C7_NoCloseOnError ==
    /\ (pc = "returned" /\ h.retFrom = "drain")
          => (ret = s /\ bad(s) /\ h.closes = 0)
    /\ (pc = "returned" /\ h.retFrom = "close")
          => (h.closes = 1 /\ ret = IF h.closeOK THEN StatusOK ELSE CloseError)

\* C7 (amended): when the drain recorded an error that error is returned,
\* and the file is closed once, by the deleter of outfile, whose result
\* does not reach the caller; otherwise the file is closed once by line 240
\* and the result is OK or the I/O error of the close.
C7_ClosedOnceEitherWay ==
    /\ h.closes <= 1
    /\ (pc = "returned" /\ h.retFrom = "drain")
          => /\ ret = s /\ bad(s)
             /\ h.closes = 1 /\ h.closedBy = "deleter" /\ outfile = "closed"
    /\ (pc = "returned" /\ h.retFrom = "close")
          => /\ ok(s)
             /\ h.closes = 1 /\ h.closedBy = "explicit" /\ outfile = "closed"
             /\ ret = IF h.closeOK THEN StatusOK ELSE CloseError

\* the drain recorded an error, the deleter's close failed, and the recorded
\* error is what returns
C7_Witness ==
    /\ pc = "returned"
    /\ h.retFrom = "drain"
    /\ ~h.closeOK
    /\ h.closes = 1
    /\ ret.code = "Failure"

(***************************************************************************)
(* discover_alleles: values and pure functions.                            *)
(***************************************************************************)
\* bcf_int32_vector_end of htslib (INT32_MIN + 1), tested at line 68
bcf_int32_vector_end == 0 - 2147483647

\* a decoding that forgets that the stored allele number is one too high
AlleleWithoutOffset(val) == val \div 2

\* bcf_gt_allele(val) of htslib, ((val) >> 1) - 1, used at line 69
bcf_gt_allele(val) == (val \div 2) - 1

\* ::toupper on the characters the inputs use (lines 84, 94)
toupper(ch) ==
    CASE ch = "a" -> "A"
      [] ch = "c" -> "C"
      [] ch = "g" -> "G"
      [] ch = "t" -> "T"
      [] ch = "n" -> "N"
      [] OTHER -> ch

\* transform(str.begin(), str.end(), str.begin(), ::toupper)
Upper(str) == [k \in 1 .. Len(str) |-> toupper(str[k])]

\* lines 36-39
is_dna(str) == \A k \in 1 .. Len(str) : str[k] \in {"A", "C", "G", "T"}

\* the DNA check without the test for the empty string
DnaWithoutSizeCheck(str) == is_dna(str)

\* lines 85 and 95: size() > 0 && is_dna(...)
ValidDna(str) == Len(str) > 0 /\ is_dna(str)

\* allele(rng, dna), the key of discovered_alleles
Allele(rng, dna) == [pos |-> rng, dna |-> dna]

\* discovered_allele_info { is_ref, observation_count } (lines 86, 97)
Info(is_ref, count) == [is_ref |-> is_ref, observation_count |-> count]

\* std::map::insert (lines 87, 98): a key the map already holds is left as it is
MapInsert(m, key, info) ==
    IF key \in DOMAIN m
    THEN m
    ELSE [x \in DOMAIN m \cup {key} |-> IF x = key THEN info ELSE m[x]]

\* lines 59-74: the tally of the hard calls gt[k..] of a record of n alleles
RECURSIVE Tally(_, _, _, _)
Tally(gt, k, n, counts) ==
    IF k > Len(gt)
    THEN counts
    ELSE IF gt[k] # bcf_int32_vector_end
              /\ bcf_gt_allele(gt[k]) >= 0
              /\ bcf_gt_allele(gt[k]) < n
         THEN Tally(gt, k + 1, n,
                    [counts EXCEPT ![bcf_gt_allele(gt[k])] = @ + 1])
         ELSE Tally(gt, k + 1, n, counts)

\* obs_counts of a record (allele index 0 is alleles[1])
ObsCounts(rec) ==
    Tally(rec.gt, 1, Len(rec.alleles), [a \in 0 .. Len(rec.alleles) - 1 |-> 0])

\* lines 81-90: the loop over the alt alleles idx..n_allele-1
RECURSIVE AddAlts(_, _, _, _)
AddAlts(rec, idx, counts, acc) ==
    IF idx >= Len(rec.alleles)
    THEN acc
    ELSE LET aldna == Upper(rec.alleles[idx + 1])
         IN  IF ValidDna(aldna)
             THEN AddAlts(rec, idx + 1, counts,
                          [m |-> MapInsert(acc.m, Allele(rec.rng, aldna),
                                           Info(FALSE, counts[idx])),
                           any_alt |-> TRUE])
             ELSE AddAlts(rec, idx + 1, counts, acc)

InvalidReference == Status("Invalid", "invalid reference allele", -1)

\* the body of the loop with the else of line 100 bound to if (any_alt)
ProcessRecordDanglingElse(rec, m) ==
    LET counts == ObsCounts(rec)
        alts   == AddAlts(rec, 1, counts, [m |-> m, any_alt |-> FALSE])
        refdna == Upper(rec.alleles[1])
    IN  IF ValidDna(refdna)
        THEN IF alts.any_alt
             THEN [status |-> StatusOK,
                   m |-> MapInsert(alts.m, Allele(rec.rng, refdna),
                                   Info(TRUE, counts[0]))]
             ELSE [status |-> InvalidReference, m |-> alts.m]
        ELSE [status |-> StatusOK, m |-> alts.m]

\* lines 58-104: the body of the loop over the records, on dsals = m
ProcessRecord(rec, m) ==
    LET counts == ObsCounts(rec)
        alts   == AddAlts(rec, 1, counts, [m |-> m, any_alt |-> FALSE])
        refdna == Upper(rec.alleles[1])
    IN  IF ValidDna(refdna)
        THEN [status |-> StatusOK,
              m |-> IF alts.any_alt
                    THEN MapInsert(alts.m, Allele(rec.rng, refdna),
                                   Info(TRUE, counts[0]))
                    ELSE alts.m]
        ELSE [status |-> InvalidReference, m |-> alts.m]

\* a merge that keeps the info the accumulator already holds
KeepInto(into, from) == into

\* merge_discovered_alleles combines the infos of a key both sets hold:
\* the counts are summed, and the key is a reference allele if either says so
MergeInfo(into, from) ==
    Info(into.is_ref \/ from.is_ref,
         into.observation_count + from.observation_count)

\* merge_discovered_alleles(src, dest) (line 108), the new value of dest
merge_discovered_alleles(src, dest) ==
    [k \in DOMAIN src \cup DOMAIN dest |->
        IF k \in DOMAIN dest
        THEN IF k \in DOMAIN src THEN MergeInfo(dest[k], src[k]) ELSE dest[k]
        ELSE src[k]]

InconsistentRefs(rng) ==
    Status("Invalid", "data sets contain inconsistent reference alleles", rng)
NoReference(rng) ==
    Status("Invalid", "data sets contain no reference allele", rng)

\* line 118: the ranges of the result set
RangesOf(m) == {k.pos : k \in DOMAIN m}

\* lines 121-130: refs, the sequences flagged is_ref at rng
RefsAt(m, rng) == {k.dna : k \in {x \in DOMAIN m : x.pos = rng /\ m[x].is_ref}}

\* a check that lets two reference alleles pass
MoreThanTwoRefs(n) == n > 2

\* line 131: refs.size() > 1
TooManyRefs(n) == n > 1

\* line 138: refs.size() == 0
NoRefs(n) == n = 0

\* lines 120-143: the loop over the remaining ranges rs, in ascending order
RECURSIVE CheckRanges(_, _)
CheckRanges(m, rs) ==
    IF rs = {}
    THEN StatusOK
    ELSE LET rng == SetMin(rs)
             n   == Cardinality(RefsAt(m, rng))
         IN  IF TooManyRefs(n) THEN InconsistentRefs(rng)
             ELSE IF NoRefs(n) THEN NoReference(rng)
             ELSE CheckRanges(m, rs \ {rng})

(***************************************************************************)
(* discover_alleles: the inputs the storage layer may hand over.           *)
(***************************************************************************)
Ranges == {1, 2}

\* allele strings as they stand in a record: upper and lower case DNA, a
\* string with a symbol that is no DNA, and the empty string
RawSeqs == {<<"A">>, <<"C">>, <<"G">>, <<"a">>, <<"A", "N">>, <<>>}

\* the alt alleles of a record: none, one DNA allele, one empty string, or a
\* symbolic one before a DNA one
AltLists ==
    {<<>>, << <<"A">> >>, << <<"c">> >>, << <<>> >>,
     << <<"A", "N">>, <<"c">> >>}

\* hard calls: 0 is a missing call, 2 allele 0, 4 and 5 allele 1, 6 allele 2,
\* 8 allele 3
GtVectors ==
    {<<2, 4, 5, 6, 0, 8, bcf_int32_vector_end>>}

Records ==
    {[rng |-> r, alleles |-> <<ref>> \o alts, gt |-> gt] :
        r \in Ranges, ref \in RawSeqs, alts \in AltLists, gt \in GtVectors}

\* a result set the caller may pass in
StaleAns == [k \in {Allele(2, <<"T">>)} |-> Info(TRUE, 1)]

\* the record has an alt allele that spells its reference
Degenerate(rec) ==
    \E a \in 2 .. Len(rec.alleles) : Upper(rec.alleles[a]) = Upper(rec.alleles[1])

\* the record registers its reference (lines 95-98 reach the insert)
Registers(rec) ==
    /\ ValidDna(Upper(rec.alleles[1]))
    /\ \E a \in 2 .. Len(rec.alleles) : ValidDna(Upper(rec.alleles[a]))

\* a sequence of one or more of the letters A, C, G, T
PlainDna(str) ==
    /\ str # <<>>
    /\ {str[k] : k \in 1 .. Len(str)} \subseteq {"A", "C", "G", "T"}

\* the record has an alt allele that is plain DNA once in upper case
HasDnaAlt(rec) == \E a \in 2 .. Len(rec.alleles) : PlainDna(Upper(rec.alleles[a]))

\* 1 if the reference of the record is not plain DNA once in upper case
InvalidRefs(rec) == IF PlainDna(Upper(rec.alleles[1])) THEN 0 ELSE 1

\* the allele indexes of the record whose sequence the record hands to the
\* result set as key: the alts that spell DNA, and the reference next to them
RegisteredIdx(rec, key) ==
    {idx \in 0 .. Len(rec.alleles) - 1 :
        /\ Allele(rec.rng, Upper(rec.alleles[idx + 1])) = key
        /\ IF idx = 0 THEN Registers(rec) ELSE ValidDna(key.dna)}

RECURSIVE SumCounts(_, _)
SumCounts(counts, idxs) ==
    IF idxs = {}
    THEN 0
    ELSE LET idx == SetMin(idxs)
         IN  counts[idx] + SumCounts(counts, idxs \ {idx})

\* per record, the tally of every allele the record registers
TalliesOf ==
    [rec \in Records |->
        LET keys == {Allele(rec.rng, Upper(rec.alleles[a])) : a \in 1 .. Len(rec.alleles)}
            mine == {k \in keys : RegisteredIdx(rec, k) # {}}
        IN  [k \in mine |-> SumCounts(ObsCounts(rec), RegisteredIdx(rec, k))]]

\* the running sum, per allele, of the tallies of the records that registered
\* it, after one more record
AddTallies(sums, rec) ==
    LET mine == TalliesOf[rec]
    IN  [k \in DOMAIN sums \cup DOMAIN mine |->
            (IF k \in DOMAIN sums THEN sums[k] ELSE 0)
            + (IF k \in DOMAIN mine THEN mine[k] ELSE 0)]

(***************************************************************************)
(* discover_alleles: the state machine.                                    *)
(***************************************************************************)
HdInit ==
    [reported |-> {}, degenerate |-> FALSE, retFrom |-> "none", total |-> 0,
     sums |-> EmptyMap, loneRef |-> FALSE, symbolic |-> FALSE,
     fetches |-> 0, checked |-> FALSE, invalid |-> 0, invalidWithAlt |-> FALSE]

DiscInit ==
    /\ dpc = "start"
    /\ ND \in 0 .. MaxDatasets
    /\ ds = 0
    /\ nrec = 0
    /\ dsals = EmptyMap
    /\ ans \in {EmptyMap, StaleAns}
    /\ dret = NoStatus
    /\ hd = HdInit
    /\ GenoIdle
    /\ MergeIdle

\* lines 43-48: resolve the sample set, then ans.clear()
DA_Resolve ==
    /\ dpc = "start"
    /\ \E found \in BOOLEAN :
         IF found
         THEN /\ ans' = EmptyMap
              /\ ds' = 1
              /\ dpc' = "fetch"
              /\ UNCHANGED <<dret, hd>>
         ELSE /\ dret' = Status("NotFound", "sampleset", -1)
              /\ dpc' = "returned"
              /\ hd' = [hd EXCEPT !.retFrom = "resolve"]
              /\ UNCHANGED <<ans, ds>>
    /\ UNCHANGED <<ND, nrec, dsals>>
    /\ UNCHANGED <<gvars, mvars>>

\* lines 49-56: the next dataset's records are fetched (at most MaxRecords
\* records over all the datasets)
DA_Fetch ==
    /\ dpc = "fetch"
    /\ ds <= ND
    /\ \E fetched \in BOOLEAN, n \in 0 .. (MaxRecords - hd.total) :
         IF fetched
         THEN /\ nrec' = n
              /\ dsals' = EmptyMap
              /\ dpc' = "record"
              /\ hd' = [hd EXCEPT !.fetches = @ + 1]
              /\ UNCHANGED dret
         ELSE /\ n = 0
              /\ dret' = Status("IOError", "dataset_range_and_header", -1)
              /\ dpc' = "returned"
              /\ hd' = [hd EXCEPT !.retFrom = "fetch", !.fetches = @ + 1]
              /\ UNCHANGED <<nrec, dsals>>
    /\ UNCHANGED <<ND, ds, ans>>
    /\ UNCHANGED <<gvars, mvars>>

\* lines 57-105: one record of the dataset
DA_Record ==
    /\ dpc = "record"
    /\ nrec > 0
    /\ \E rec \in Records :
         LET out == ProcessRecord(rec, dsals)
         IN  IF ok(out.status)
             THEN /\ dsals' = out.m
                  /\ nrec' = nrec - 1
                  /\ hd' = [hd EXCEPT
                       !.reported = IF Registers(rec)
                                    THEN @ \cup {<<ds, rec.rng, Upper(rec.alleles[1])>>}
                                    ELSE @,
                       !.degenerate = @ \/ Degenerate(rec),
                       !.total = @ + 1,
                       !.sums = AddTallies(@, rec),
                       !.loneRef = @ \/ (~HasDnaAlt(rec) /\ out.m # dsals),
                       !.symbolic = @ \/ (\E a \in 2 .. Len(rec.alleles) :
                                            ~PlainDna(Upper(rec.alleles[a]))),
                       !.invalid = @ + InvalidRefs(rec)]
                  /\ UNCHANGED <<dpc, dret>>
             ELSE /\ dret' = out.status
                  /\ dpc' = "returned"
                  /\ hd' = [hd EXCEPT
                       !.retFrom = "record",
                       !.invalid = @ + InvalidRefs(rec),
                       !.invalidWithAlt = HasDnaAlt(rec)]
                  /\ UNCHANGED <<dsals, nrec>>
    /\ UNCHANGED <<ND, ds, ans>>
    /\ UNCHANGED <<gvars, mvars>>

\* line 108: merge in this dataset's alleles
DA_Merge ==
    /\ dpc = "record"
    /\ nrec = 0
    /\ ans' = merge_discovered_alleles(dsals, ans)
    /\ ds' = ds + 1
    /\ dpc' = "fetch"
    /\ UNCHANGED <<ND, nrec, dsals, dret, hd>>
    /\ UNCHANGED <<gvars, mvars>>

\* lines 111-143: the ex post facto check and the return
DA_Check ==
    /\ dpc = "fetch"
    /\ ds > ND
    /\ dret' = CheckRanges(ans, RangesOf(ans))
    /\ dpc' = "returned"
    /\ hd' = [hd EXCEPT !.retFrom = "check", !.checked = TRUE]
    /\ UNCHANGED <<ND, ds, nrec, dsals, ans>>
    /\ UNCHANGED <<gvars, mvars>>

DiscNext ==
    \/ DA_Resolve
    \/ DA_Fetch
    \/ DA_Record
    \/ DA_Merge
    \/ DA_Check

SpecDisc == DiscInit /\ [][DiscNext]_vars

(***************************************************************************)
(* Merging per-dataset allele sets in any order, and in any grouping.      *)
(***************************************************************************)
MergeIds == {"d1", "d2", "d3"}

\* two alleles at one range
MergeKeys == {Allele(1, <<"A">>), Allele(1, <<"C">>)}

MergeInfos == {Info(r, c) : r \in BOOLEAN, c \in 0 .. MaxCount}

\* every discovered_alleles over MergeKeys
AlleleSets == UNION {[K -> MergeInfos] : K \in SUBSET MergeKeys}

MergeInit ==
    /\ msets \in [MergeIds -> AlleleSets]
    /\ mwork = msets
    /\ mpending = MergeIds
    /\ macc = EmptyMap
    /\ mfirst = ""
    /\ GenoIdle
    /\ DiscIdle

\* line 108 for dataset d, whichever dataset comes next
MergeDataset(d) ==
    /\ d \in mpending
    /\ macc' = merge_discovered_alleles(mwork[d], macc)
    /\ mpending' = mpending \ {d}
    /\ mfirst' = IF mfirst = "" THEN d ELSE mfirst
    /\ UNCHANGED <<msets, mwork>>
    /\ UNCHANGED <<gvars, dvars>>

\* the set of dataset e is merged into the set of dataset d before either
\* reaches the accumulator
MergePair(d, e) ==
    /\ d \in mpending
    /\ e \in mpending
    /\ d # e
    /\ mwork' = [mwork EXCEPT ![d] = merge_discovered_alleles(mwork[e], mwork[d]),
                              ![e] = EmptyMap]
    /\ mpending' = mpending \ {e}
    /\ mfirst' = IF mfirst = "" THEN e ELSE mfirst
    /\ UNCHANGED <<msets, macc>>
    /\ UNCHANGED <<gvars, dvars>>

MergeNext ==
    \/ \E d \in MergeIds : MergeDataset(d)
    \/ \E d, e \in MergeIds : MergePair(d, e)

SpecMerge == MergeInit /\ [][MergeNext]_vars

(***************************************************************************)
(* Claims about the merge and about discover_alleles.                      *)
(***************************************************************************)
\* the sets merged one after the other in the order d1, d2, d3
MergedInOrder ==
    merge_discovered_alleles(msets["d3"],
        merge_discovered_alleles(msets["d2"],
            merge_discovered_alleles(msets["d1"], EmptyMap)))

\* C8: merging the per-dataset sets into the accumulator in any order, and
\* in any grouping, gives one and the same final set, with the same keys,
\* the same observation counts and the same is_ref flags.
C8_MergeOrderIndependent ==
    mpending = {} => macc = MergedInOrder

\* d3 was merged first; an allele that all three sets hold, with is_ref
\* flags that differ, has its counts summed
C8_Witness ==
    /\ mpending = {}
    /\ mfirst = "d3"
    /\ \E k \in MergeKeys :
         /\ \A d \in MergeIds : k \in DOMAIN msets[d]
         /\ msets["d1"][k].is_ref # msets["d3"][k].is_ref
         /\ macc[k].observation_count >= 2

\* the ranges of the result set where the number of reference alleles is not 1
BadRanges == {r \in RangesOf(ans) : Cardinality(RefsAt(ans, r)) # 1}

\* C9 (as stated): discover_alleles returns OK only if every range of the
\* merged set has exactly one is_ref allele; if some range has more than one
\* it returns the reference-inconsistency error, and if some range has none
\* it returns the missing-reference error.
C9_ErrorPerKind ==
    (dpc = "returned" /\ hd.retFrom = "check") =>
        /\ ok(dret) => BadRanges = {}
        /\ (\E r \in RangesOf(ans) : Cardinality(RefsAt(ans, r)) > 1)
              => dret.msg = "data sets contain inconsistent reference alleles"
        /\ (\E r \in RangesOf(ans) : Cardinality(RefsAt(ans, r)) = 0)
              => dret.msg = "data sets contain no reference allele"

\* C9 (amended): discover_alleles returns OK if and only if every range of
\* the merged set has exactly one is_ref allele; otherwise it returns the
\* error of the lowest offending range: the reference-inconsistency error if
\* that range has more than one is_ref allele, the missing-reference error
\* if it has none.
C9_ErrorOfLowestBadRange ==
    (dpc = "returned" /\ hd.retFrom = "check") =>
        IF BadRanges = {}
        THEN ok(dret)
        ELSE LET r == SetMin(BadRanges)
             IN  dret = IF Cardinality(RefsAt(ans, r)) > 1
                        THEN InconsistentRefs(r)
                        ELSE NoReference(r)

\* the check ran on a set with a range without and a range with two
\* reference alleles
C9_Witness ==
    /\ dpc = "returned"
    /\ hd.retFrom = "check"
    /\ \E r1, r2 \in RangesOf(ans) :
         /\ Cardinality(RefsAt(ans, r1)) = 0
         /\ Cardinality(RefsAt(ans, r2)) > 1

\* two datasets registered different reference sequences at one range
RefConflict ==
    \E x, y \in hd.reported : x[1] # y[1] /\ x[2] = y[2] /\ x[3] # y[3]

\* C10: when no fetch fails and every reference is valid DNA (the check is
\* reached), and two datasets registered different reference sequences at
\* one range, discover_alleles returns the reference-inconsistency error.
\* (Stated for records none of which spells its reference as an alt.)
C10_ConflictingRefsRejected ==
    (dpc = "returned" /\ hd.retFrom = "check" /\ RefConflict /\ ~hd.degenerate)
        => dret.msg = "data sets contain inconsistent reference alleles"

(***************************************************************************)
(* C11: whenever discover_alleles returns an error after it started on    *)
(* the datasets (a fetch failure, an invalid reference, a failed           *)
(* post-merge check), the set handed back holds no allele merged from the  *)
(* datasets processed before the failure.                                  *)
(***************************************************************************)
C11_NoPartialSetOnFailure ==
    (dpc = "returned" /\ bad(dret) /\ hd.retFrom \in {"fetch", "record", "check"})
        => ans = EmptyMap

(***************************************************************************)
(* C12: on a successful discovery every allele's observation_count is the  *)
(* sum of the per-record tallies of that allele over all the records, of   *)
(* all the datasets, that registered it -- two records of one dataset that *)
(* register the same allele at the same range included.                    *)
(***************************************************************************)
C12_CountsAreSumsOfTallies ==
    (dpc = "returned" /\ ok(dret) /\ ~hd.degenerate)
        => /\ DOMAIN ans = DOMAIN hd.sums
           /\ \A k \in DOMAIN ans : ans[k].observation_count = hd.sums[k]

(***************************************************************************)
(* C13: every allele key of a result set spells a non-empty sequence of    *)
(* the letters A, C, G, T; an alt allele whose upper-case sequence is      *)
(* empty or holds another symbol is never included, and does not count as  *)
(* the qualifying alt that lets a record register its reference.           *)
(***************************************************************************)
C13_OnlyPlainDnaKeys ==
    /\ \A k \in DOMAIN ans \cup DOMAIN dsals : PlainDna(k.dna)
    /\ ~hd.loneRef

\* a successful discovery over records with an empty and a symbolic alt
\* allele that still hands back alleles
C13_Witness ==
    /\ dpc = "returned"
    /\ ok(dret)
    /\ hd.symbolic
    /\ ans # EmptyMap
    /\ hd.total >= 2

(***************************************************************************)
(* C14: discovery stops at the first record whose upper-case reference is  *)
(* empty or not plain DNA: it returns the invalid-reference error at once, *)
(* whether or not an alt of that record qualified, fetches no later        *)
(* dataset and does not run the post-merge check.  The first fetch failure *)
(* is returned at once in the same way.                                    *)
(***************************************************************************)
C14_FailFast ==
    /\ hd.invalid > 0 =>
          /\ hd.invalid = 1
          /\ dpc = "returned"
          /\ hd.retFrom = "record"
          /\ dret = InvalidReference
    /\ hd.retFrom = "record" => hd.invalid = 1
    /\ hd.retFrom \in {"record", "fetch"} =>
          /\ dpc = "returned"
          /\ bad(dret)
          /\ hd.fetches = ds
          /\ ~hd.checked
    /\ hd.retFrom = "fetch" =>
          dret = Status("IOError", "dataset_range_and_header", -1)

\* an invalid reference next to a qualifying alt, in the first of two
\* datasets and after a record that was fine
C14_Witness ==
    /\ dpc = "returned"
    /\ hd.retFrom = "record"
    /\ hd.invalidWithAlt
    /\ hd.total >= 1
    /\ ds = 1
    /\ ND = 2

(***************************************************************************)
(* C15: once the drain has recorded an error at index k -- the failure of  *)
(* task k or of the write of record k -- no record of a later index is     *)
(* written: from then on, and when genotype_sites returns the error, the   *)
(* sink holds exactly the records of the sites below the first failing     *)
(* index, in site order, however the tasks were scheduled.                 *)
(***************************************************************************)
\* the drain loop has started and genotype_sites did not return from setup
InDrain ==
    \/ pc \in {"drain", "move", "decide", "finish"}
    \/ pc = "returned" /\ h.retFrom = "drain"

\* the lowest index whose task did not return OK or whose write failed
FirstError ==
    SetMin({t \in Sites : t < N /\ statuses[t].code \in {"Failure", "Invalid"}}
           \cup ({h.writeFailAt} \ {0 - 1}))

C15_SinkStopsAtFirstError ==
    (InDrain /\ bad(s)) =>
        /\ FirstError < i
        /\ sink = [j \in 1 .. FirstError |-> j - 1]
        /\ pc = "returned" => ret = s

\* an error return after two written records, with a later task that
\* produced its record out of order and saw it dropped
C15_Witness ==
    /\ pc = "returned"
    /\ h.retFrom = "drain"
    /\ Len(sink) = 2
    /\ h.skew
    /\ \E t \in Sites : t < N /\ t > 2 /\ h.produced[t] /\ h.discards[t] = 1

(***************************************************************************)
(* C16: a task that finds the abort flag set when it starts returns the    *)
(* cancellation status at once: it never calls the genotyper and never     *)
(* writes its slot.  A task that passed the entry check while the flag was *)
(* clear is not stopped by a flag set later: it runs the genotyper and, on *)
(* success, stores its record, which the drain then drops unwritten.       *)
(***************************************************************************)
C16_CooperativeAbort ==
    \A t \in Sites :
        /\ h.entry[t] = "set" =>
              /\ ~h.invoked[t]
              /\ ~h.produced[t]
              /\ h.writers[t] = {}
              /\ results[t] = Null
              /\ tstate[t] \in {"return_cancel", "done"}
              /\ tstate[t] = "done" => statuses[t] = Cancelled
        /\ h.entry[t] = "clear" =>
              /\ tstate[t] \in {"compute", "store", "return_ok", "return_bad", "done"}
              /\ tstate[t] = "done" =>
                    /\ h.invoked[t]
                    /\ statuses[t] \in {StatusOK, SiteFailure(t)}
                    /\ ok(statuses[t]) => h.produced[t]
        /\ (Drained /\ h.lateStore[t]) =>
              /\ h.moved[t] = 1
              /\ h.discards[t] = 1
              /\ h.writeCalls[t] = 0

\* one task stored its record after the flag was set and had it dropped,
\* another found the flag set
C16_Witness ==
    /\ pc = "returned"
    /\ \E t, u \in Sites :
          /\ h.lateStore[t]
          /\ h.discards[t] = 1
          /\ h.entry[u] = "set"
          /\ statuses[u] = Cancelled

(***************************************************************************)
(* The loop over the records of one dataset (lines 56-108) on records      *)
(* that are fixed at the start: one record with every shape of hard calls, *)
(* or two records of the kinds discover_alleles is run on above.           *)
(***************************************************************************)
\* htslib's missing value of an int32 vector
bcf_int32_missing == 0 - 2147483647 - 1

\* the values of a call: missing (0, and the int32 missing value), allele 0,
\* allele 1 unphased and phased, allele 2
CallValues == {0, 2, 4, 5, 6, bcf_int32_missing}

\* the calls of a diploid sample as bcf_get_genotypes lays them out: behind
\* the first bcf_int32_vector_end of a sample there is only padding
SampleCalls ==
    {<<v, w>> : v, w \in CallValues}
        \cup {<<v, bcf_int32_vector_end>> : v \in CallValues}
        \cup {<<bcf_int32_vector_end, bcf_int32_vector_end>>}

TallyAlleles == {<< <<"A">> >>, << <<"A">>, <<"C">> >>, << <<"a">>, <<"c">>, <<"G">> >>}

\* a record of two samples; gt is the flat vector the code scans
TallyRecords ==
    {[rng |-> 1, alleles |-> als, gt |-> a \o b, samples |-> <<a, b>>] :
        als \in TallyAlleles, a \in SampleCalls, b \in SampleCalls}

RecordLists ==
    {<<rec>> : rec \in TallyRecords}
        \cup {<<rec>> : rec \in Records}
        \cup {<<r1, r2>> : r1 \in Records, r2 \in Records}

HrInit(recs) == [recs |-> recs, done |-> 0, counts |-> <<>>, before |-> EmptyMap]

RecInit ==
    /\ dpc = "record"
    /\ ND = 1
    /\ ds = 1
    /\ \E recs \in RecordLists :
         /\ nrec = Len(recs)
         /\ hd = HrInit(recs)
    /\ dsals = EmptyMap
    /\ ans = EmptyMap
    /\ dret = NoStatus
    /\ GenoIdle
    /\ MergeIdle

\* lines 57-105: the next record of the list
RA_Record ==
    /\ dpc = "record"
    /\ nrec > 0
    /\ LET rec == hd.recs[hd.done + 1]
           out == ProcessRecord(rec, dsals)
       IN  /\ hd' = [hd EXCEPT !.done = @ + 1,
                               !.counts = ObsCounts(rec),
                               !.before = dsals]
           /\ IF ok(out.status)
              THEN /\ dsals' = out.m
                   /\ nrec' = nrec - 1
                   /\ UNCHANGED <<dpc, dret>>
              ELSE /\ dret' = out.status
                   /\ dpc' = "returned"
                   /\ UNCHANGED <<dsals, nrec>>
    /\ UNCHANGED <<ND, ds, ans>>
    /\ UNCHANGED <<gvars, mvars>>

\* line 108: the dataset's alleles are merged into the result
RA_Merge ==
    /\ dpc = "record"
    /\ nrec = 0
    /\ ans' = merge_discovered_alleles(dsals, ans)
    /\ dpc' = "merged"
    /\ UNCHANGED <<ND, ds, nrec, dsals, dret, hd>>
    /\ UNCHANGED <<gvars, mvars>>

RecNext ==
    \/ RA_Record
    \/ RA_Merge

SpecRecord == RecInit /\ [][RecNext]_vars

\* the record processed last
LastRecord == hd.recs[hd.done]

\* the call value val names allele a (the allele number plus one, shifted
\* left by one, the low bit telling the phase)
Decodes(val, a) == val \in {2 * a + 2, 2 * a + 3}

\* the calls of a sample that stand before its first bcf_int32_vector_end
\* and name allele a
CallsOf(calls, a) ==
    {j \in 1 .. Len(calls) :
        /\ \A x \in 1 .. j : calls[x] # bcf_int32_vector_end
        /\ Decodes(calls[j], a)}

C18_ReferenceRegisteredWithAlt ==
    (/\ hd.done >= 1
     /\ dpc # "returned"
     /\ \A j \in 1 .. Len(hd.recs) : ~Degenerate(hd.recs[j])) =>
        LET rec == LastRecord
            key == Allele(rec.rng, Upper(rec.alleles[1]))
        IN  /\ IF PlainDna(key.dna) /\ HasDnaAlt(rec)
               THEN /\ key \in DOMAIN dsals
                    /\ dsals[key].is_ref
                    /\ key \notin DOMAIN hd.before =>
                          dsals[key].observation_count = hd.counts[0]
               ELSE dsals = hd.before
            /\ \A k \in DOMAIN dsals \cup DOMAIN ans :
                  \E j \in 1 .. hd.done :
                     hd.recs[j].rng = k.pos /\ HasDnaAlt(hd.recs[j])

(***************************************************************************)
(* C19: with at least one pool thread, a genotyper that returns and fair   *)
(* scheduling, genotype_sites eventually returns, for every number of      *)
(* sites (none included) and every pattern of failures and cancellations,  *)
(* and by then every submitted task has made its future ready.             *)
(***************************************************************************)
AllFuturesReady ==
    \A t \in Sites :
        h.submitted[t] > 0 => tstate[t] = "done" /\ statuses[t] # Pending

C19_EventuallyReturns == <>(pc = "returned" /\ queue = <<>> /\ AllFuturesReady)

\* a return after a failure that left a later task cancelled
C19_Witness ==
    /\ pc = "returned"
    /\ h.retFrom = "drain"
    /\ AllFuturesReady
    /\ \E t, u \in Sites : t < u /\ statuses[t].code = "Failure" /\ statuses[u] = Cancelled

(***************************************************************************)
(* C20: the abort flag is clear while the tasks are submitted; only the    *)
(* draining thread writes it, in the iteration that records the first      *)
(* error; once set it is never cleared; and whenever it is set the drain   *)
(* has recorded an error.  The tasks only read it.                         *)
(***************************************************************************)
C20_AbortWrittenOnceByDrain ==
    /\ [](pc \in {"start", "header", "open", "hdr_write", "submit"} => ~abort)
    /\ [](abort => InDrain /\ bad(s))
    /\ [][abort => abort']_vars
    /\ [][abort' # abort => pc = "decide" /\ pc' = "drain" /\ ok(s) /\ bad(s')]_vars

\* the flag is set while a task that entered before is still computing, and
\* a task that has not started yet is still queued
C20_Witness ==
    /\ abort
    /\ pc = "drain"
    /\ \E t \in Sites : tstate[t] = "compute" /\ h.entry[t] = "clear"
    /\ queue # <<>>

====
